---- MODULE Spec2Model ----
(***************************************************************************)
(* Memory store with soft versioning (memory/memory_store.py), the         *)
(* reconciliation tools that drive it (memory/update_memory.py) and the    *)
(* background write coordinator of the chat loop (chatbot.py).             *)
(*                                                                         *)
(* Text is modelled as a sequence of one-character strings, so that the    *)
(* ",".join / split(",") / strip() conversions of the category labels are  *)
(* computed, not assumed.  Distances are in half units (0..4 stands for    *)
(* cosine distance 0.0..2.0) and scores in quarter units (0..4 stands for  *)
(* 0.0..1.0), so that score = 1 - dist/2 is exact integer arithmetic.      *)
(***************************************************************************)
EXTENDS Integers, Sequences, FiniteSets, TLC

VARIABLES
    store,      \* the ChromaDB collection: point id -> metadata record
    nextId,     \* ids below nextId have been handed out by uuid4()
    clock,      \* last value read from datetime.now()
    jobs,       \* the background tasks created by fire_and_forget_memory
    pending,    \* _pending_memory_tasks
    loopPc,     \* position of chat_loop
    gathered,   \* the tasks handed to asyncio.gather on /quit
    exitPath,   \* how chat_loop was left: "none", "quit" or "interrupt"
    call        \* observer: the tool call being watched, with the store it started from

vars == <<store, nextId, clock, jobs, pending, loopPc, gathered, exitPath, call>>

---------------------------------------------------------------------------
(* Bounds of the model *)

MaxIds == 3         \* records ever created
MaxClock == 1       \* datetime.now() takes the values 0..MaxClock
CallMaxIds == 3     \* highest record id under CallSpec
StoreMaxIds == 2    \* highest record id under StoreSpec
LabelMaxIds == 2    \* highest record id under LabelSpec
BatchMaxIds == 3    \* highest record id under BatchSpec

(* Program constants *)

DefaultTopK == 5    \* search_memories(top_k=5)
DefaultUser == 1    \* pick_user: "default (ID = 1)"

Users == {1, 2}
Jobs == {1, 2}      \* the background tasks a session launches
Times == 0..MaxClock

---------------------------------------------------------------------------
(* Text helpers: str.join, str.split, str.strip *)

Comma == ","
Space == " "

RECURSIVE Join(_)
Join(labels) ==
    IF labels = <<>> THEN <<>>
    ELSE IF Len(labels) = 1 THEN labels[1]
    ELSE labels[1] \o <<Comma>> \o Join(Tail(labels))

RECURSIVE SplitFrom(_, _)
\* s.split(","): cur is the label being read; "" splits to one empty label
SplitFrom(s, cur) ==
    IF s = <<>> THEN <<cur>>
    ELSE IF Head(s) = Comma THEN <<cur>> \o SplitFrom(Tail(s), <<>>)
    ELSE SplitFrom(Tail(s), Append(cur, Head(s)))

Split(s) == SplitFrom(s, <<>>)

RECURSIVE LStrip(_)
LStrip(s) == IF s # <<>> /\ Head(s) = Space THEN LStrip(Tail(s)) ELSE s

RECURSIVE RStrip(_)
RStrip(s) ==
    IF s # <<>> /\ s[Len(s)] = Space THEN RStrip(SubSeq(s, 1, Len(s) - 1)) ELSE s

Strip(s) == RStrip(LStrip(s))

SeqRange(s) == {s[i] : i \in 1..Len(s)}

---------------------------------------------------------------------------
(* Inputs: the facts a caller stores and the vectors it queries with *)

MemInputs ==
    { [text |-> <<"p">>, cats |-> << <<"a">> >>],
      [text |-> <<"q">>, cats |-> << <<"b">> >>] }

\* generate_embeddings: deterministic, one coordinate per text
Embed(text) == IF text = <<"p">> THEN 0 ELSE 1

QueryVecs == {0, 1, 2}

CatFilters == { <<>>, << <<"a">> >>, << <<"b">> >> }

\* cosine distance of the index, in half units: 0, 1.0 or 2.0
Distance(q, e) == IF q = e THEN 0 ELSE IF q - e \in {1, -1} THEN 2 ELSE 4

---------------------------------------------------------------------------
(* Memory Record Store: memory_store.py *)

HasStamp(meta) == "superseded_at" \in DOMAIN meta

\* datetime.fromisoformat(m.date).timestamp()
Timestamp(date) == date

\* the metadata dict add_memory builds for one EmbeddedMemory
NewMeta(user, inp, date, now, cur) ==
    [ user_id     |-> user,
      memory_text |-> inp.text,
      categories  |-> Join(inp.cats),
      date        |-> date,
      timestamp   |-> Timestamp(date),
      saved_at    |-> now,
      is_current  |-> cur,
      embedding   |-> Embed(inp.text),
      document    |-> inp.text ]

\* col.upsert(ids=[id], ...): insert or overwrite
Upsert(s, id, meta) ==
    [i \in DOMAIN s \cup {id} |-> IF i = id THEN meta ELSE s[i]]

\* col.delete(ids=point_ids)
DeleteIds(s, ids) == [i \in DOMAIN s \ ids |-> s[i]]

\* variant of DeleteUser for C15: an erasure that spares the superseded records
DeleteUserCurrentOnly(s, u) ==
    [i \in {k \in DOMAIN s : s[k].user_id # u \/ s[k].is_current = 0} |-> s[i]]

\* col.delete(where={"user_id": {"$eq": user_id}})
DeleteUser(s, u) == [i \in {k \in DOMAIN s : s[k].user_id # u} |-> s[i]]

\* variant of MarkedMeta for C1: the flag is flipped where the code clears it
MarkedMetaFlips(meta, now) ==
    [ user_id       |-> meta.user_id,
      memory_text   |-> meta.memory_text,
      categories    |-> meta.categories,
      date          |-> meta.date,
      timestamp     |-> meta.timestamp,
      saved_at      |-> meta.saved_at,
      is_current    |-> 1 - meta.is_current,
      embedding     |-> meta.embedding,
      document      |-> meta.document,
      superseded_at |-> now ]

\* variant of MarkedMeta for C3: the stamp is written and the flag is left alone
MarkedMetaKeepsFlag(meta, now) ==
    [ user_id       |-> meta.user_id,
      memory_text   |-> meta.memory_text,
      categories    |-> meta.categories,
      date          |-> meta.date,
      timestamp     |-> meta.timestamp,
      saved_at      |-> meta.saved_at,
      is_current    |-> meta.is_current,
      embedding     |-> meta.embedding,
      document      |-> meta.document,
      superseded_at |-> now ]

\* variant of MarkedMeta for C14: the invalidation also renews saved_at
MarkedMetaRenewsSavedAt(meta, now) ==
    [ user_id       |-> meta.user_id,
      memory_text   |-> meta.memory_text,
      categories    |-> meta.categories,
      date          |-> meta.date,
      timestamp     |-> meta.timestamp,
      saved_at      |-> now,
      is_current    |-> 0,
      embedding     |-> meta.embedding,
      document      |-> meta.document,
      superseded_at |-> now ]

\* mark_memory_old, after the fetch: meta["is_current"] = 0; meta["superseded_at"] = now
MarkedMeta(meta, now) ==
    [ user_id       |-> meta.user_id,
      memory_text   |-> meta.memory_text,
      categories    |-> meta.categories,
      date          |-> meta.date,
      timestamp     |-> meta.timestamp,
      saved_at      |-> meta.saved_at,
      is_current    |-> 0,
      embedding     |-> meta.embedding,
      document      |-> meta.document,
      superseded_at |-> now ]

\* int(metadata.get("is_current", 1))
IsCurrentOf(meta) == IF "is_current" \in DOMAIN meta THEN meta.is_current ELSE 1

\* _build_retrieved
BuildRetrieved(id, meta, score) ==
    [ point_id    |-> id,
      user_id     |-> meta.user_id,
      memory_text |-> meta.memory_text,
      categories  |-> Split(meta.categories),
      date        |-> meta.date,
      score       |-> score,
      is_current  |-> IsCurrentOf(meta) ]

---------------------------------------------------------------------------
(* Retrieval: search_memories, fetch_all_user_records *)

Max(a, b) == IF a >= b THEN a ELSE b

\* fetch_k = max(top_k * 6, 30) if (categories or not include_old) else max(top_k * 4, 20)
FetchK(cats, top_k, include_old) ==
    IF cats # <<>> \/ ~include_old THEN Max(top_k * 6, 30) ELSE Max(top_k * 4, 20)

\* the id the index ranks first among ids: least distance, then least id
Nearest(s, q, ids) ==
    CHOOSE i \in ids :
        \A k \in ids :
            \/ Distance(q, s[i].embedding) < Distance(q, s[k].embedding)
            \/ /\ Distance(q, s[i].embedding) = Distance(q, s[k].embedding)
               /\ i <= k

RECURSIVE Ranked(_, _, _, _)
\* col.query(..., n_results=n): at most n ids of ids, nearest first
Ranked(s, q, ids, n) ==
    IF ids = {} \/ n <= 0 THEN <<>>
    ELSE LET i == Nearest(s, q, ids)
         IN  <<i>> \o Ranked(s, q, ids \ {i}, n - 1)

\* variant of QueryIndex for C5: the query without its where={"user_id": ...}
QueryIndexAnyUser(s, q, u, fetch_k) == Ranked(s, q, DOMAIN s, fetch_k)

\* col.query(query_embeddings=[q], n_results=fetch_k, where={"user_id": {"$eq": u}})
QueryIndex(s, q, u, fetch_k) ==
    Ranked(s, q, {i \in DOMAIN s : s[i].user_id = u}, fetch_k)

\* score = 1.0 - (dist / 2.0), in quarter units
Score(dist) == 4 - dist

\* variant of BelowFloor for C13: a floor that also discards score = 0.5
BelowOrAtFloor(score) == score <= 2

\* if score < 0.5: continue
BelowFloor(score) == score < 2

\* variant of HiddenAsOld for C4: the loop without its is_current test
HiddenNever(meta, include_old) == FALSE

\* if not include_old and int(meta.get("is_current", 1)) == 0: continue
HiddenAsOld(meta, include_old) == ~include_old /\ IsCurrentOf(meta) = 0

\* if categories: ... if not any(c in stored_cats for c in categories): continue
FilteredByCategory(meta, cats) ==
    /\ cats # <<>>
    /\ LET stored_cats == {Strip(c) : c \in SeqRange(Split(meta.categories))}
       IN  ~ \E k \in 1..Len(cats) : cats[k] \in stored_cats

RECURSIVE SearchLoop(_, _, _, _, _, _, _)
\* the for loop over the candidates; out is the list built so far
SearchLoop(s, q, cand, cats, top_k, include_old, out) ==
    IF cand = <<>> THEN out
    ELSE LET id    == Head(cand)
             meta  == s[id]
             score == Score(Distance(q, meta.embedding))
         IN  IF \/ BelowFloor(score)
                \/ HiddenAsOld(meta, include_old)
                \/ FilteredByCategory(meta, cats)
             THEN SearchLoop(s, q, Tail(cand), cats, top_k, include_old, out)
             ELSE LET out2 == Append(out, BuildRetrieved(id, meta, score))
                  IN  IF Len(out2) >= top_k THEN out2
                      ELSE SearchLoop(s, q, Tail(cand), cats, top_k, include_old, out2)

\* search_memories(search_vector, user_id, categories, top_k, include_old)
SearchMemories(s, q, u, cats, top_k, include_old) ==
    SearchLoop(s, q, QueryIndex(s, q, u, FetchK(cats, top_k, include_old)),
               cats, top_k, include_old, <<>>)

\* variant of SearchMemoriesTry for C16: the failure of col.query is not caught
SearchMemoriesNoCatch(s, q, u, cats, top_k, include_old, raises) ==
    IF raises THEN <<"raised">>
    ELSE SearchMemories(s, q, u, cats, top_k, include_old)

\* search_memories with its try/except: col.query either raises (then the
\* result is []) or returns the candidates
SearchMemoriesTry(s, q, u, cats, top_k, include_old, raises) ==
    IF raises THEN <<>>
    ELSE SearchMemories(s, q, u, cats, top_k, include_old)

\* fetch_all_user_records: the set of projections (col.get returns them unordered)
FetchAllUserRecords(s, u) ==
    {BuildRetrieved(i, s[i], 0) : i \in {k \in DOMAIN s : s[k].user_id = u}}

\* code point order of the characters used in labels
CharRank(c) ==
    CASE c = Space -> 32
      [] c = Comma -> 44
      [] c = "A" -> 65
      [] c = "a" -> 97
      [] c = "b" -> 98
      [] OTHER -> 127

RECURSIVE StrLess(_, _)
\* x < y on Python strings
StrLess(x, y) ==
    IF y = <<>> THEN FALSE
    ELSE IF x = <<>> THEN TRUE
    ELSE IF Head(x) # Head(y) THEN CharRank(Head(x)) < CharRank(Head(y))
    ELSE StrLess(Tail(x), Tail(y))

RECURSIVE Sorted(_)
\* sorted(seen)
Sorted(seen) ==
    IF seen = {} THEN <<>>
    ELSE LET least == CHOOSE x \in seen : \A y \in seen \ {x} : StrLess(x, y)
         IN  <<least>> \o Sorted(seen \ {least})

\* get_all_categories
GetAllCategories(s, u) ==
    LET seen == UNION { {Strip(c) : c \in SeqRange(Split(s[i].categories))} :
                        i \in {k \in DOMAIN s : s[k].user_id = u} }
    IN  Sorted(seen)

\* stringify_retrieved_point: the parts of the line shown to the responder
OldTag == " [OLD/SUPERSEDED]"

StringifyRetrievedPoint(r) ==
    [ memory_text |-> r.memory_text,
      status_tag  |-> IF r.is_current # 0 THEN "" ELSE OldTag,
      categories  |-> r.categories,
      saved       |-> r.date,
      relevance   |-> r.score ]

---------------------------------------------------------------------------
(* Reconciliation tools and background tasks: update_memory.py, chatbot.py *)

\* a task that fire_and_forget_memory has not created yet
NewJob ==
    [ pc       |-> "new",
      existing |-> <<>>,    \* point ids of the existing_memories snapshot
      tool     |-> "none",  \* the tool call in progress
      inp      |-> <<>>,    \* its text and categories
      pid      |-> 0,       \* get_point_id(memory_id)
      fetched  |-> <<>> ]   \* metadata mark_memory_old fetched and has yet to upsert

\* a value datetime.now() may return next
NowSet == {t \in Times : clock <= t /\ t <= clock + 1}

\* existing_memories[memory_id] is defined: Python accepts -n..n-1
PyValidIndex(n, i) == -n <= i /\ i < n

\* get_point_id: existing_memories[memory_id].point_id, negative indices count from the end
GetPointId(existing, i) ==
    IF i >= 0 THEN existing[i + 1] ELSE existing[Len(existing) + i + 1]

TaskDone(j) == jobs[j].pc \in {"done", "failed", "cancelled"}

\* the event loop runs coroutines only while chat_loop is suspended at an await;
\* console.input blocks it
LoopFree == loopPc \in {"turn", "quit_summary", "gather", "int_summary"}

\* asyncio.run(main()) cancels every task still running when main returns
CancelAll(js) ==
    [k \in Jobs |->
        IF js[k].pc \in {"ready", "agent", "marking", "upd_add"}
        THEN [NewJob EXCEPT !.pc = "cancelled", !.pid = js[k].pid,
                            !.fetched = js[k].fetched]
        ELSE js[k]]

---------------------------------------------------------------------------
(* The store API and its callers outside the tasks *)

\* add_memory([EmbeddedMemory(user_id=u, ..., date=datetime.now().isoformat())]):
\* d is the caller's clock reading, t the one of add_memory._add
AddMemory(u, inp, d, t) ==
    /\ nextId <= MaxIds
    /\ d \in NowSet /\ t \in Times /\ d <= t /\ t <= d + 1
    /\ store' = Upsert(store, nextId, NewMeta(u, inp, d, t, 1))
    /\ nextId' = nextId + 1
    /\ clock' = t

\* another caller of add_memory
ClientAddMemory(u, inp, d, t) ==
    /\ loopPc # "exited"
    /\ AddMemory(u, inp, d, t)
    /\ UNCHANGED <<jobs, pending, loopPc, gathered, exitPath>>

\* another caller of delete_user_records(user_id)
ClientDeleteUserRecords(u) ==
    /\ loopPc # "exited"
    /\ store' = DeleteUser(store, u)
    /\ UNCHANGED <<nextId, clock, jobs, pending, loopPc, gathered, exitPath>>

\* a caller of delete_records(point_ids)
ClientDeleteRecords(ids) ==
    /\ loopPc # "exited"
    /\ store' = DeleteIds(store, ids)
    /\ UNCHANGED <<nextId, clock, jobs, pending, loopPc, gathered, exitPath>>

\* a caller of mark_memory_old(point_id), fetch and upsert with nothing in between
ClientMarkMemoryOld(id, t) ==
    /\ loopPc # "exited"
    /\ t \in NowSet
    /\ IF id \in DOMAIN store
       THEN /\ store' = Upsert(store, id, MarkedMeta(store[id], t))
            /\ clock' = t
       ELSE UNCHANGED <<store, clock>>
    /\ UNCHANGED <<nextId, jobs, pending, loopPc, gathered, exitPath>>

---------------------------------------------------------------------------
(* One background task: fire_and_forget_memory._run -> update_memories *)

\* variant of JobRetrieve for C27: the snapshot is searched without the
\* user_id filter of the index query
JobRetrieveAnyUser(j, q) ==
    /\ jobs[j].pc = "ready" /\ LoopFree
    /\ LET found == SearchLoop(store, q,
                               QueryIndexAnyUser(store, q, DefaultUser,
                                                 FetchK(<<>>, DefaultTopK, FALSE)),
                               <<>>, DefaultTopK, FALSE, <<>>)
       IN  jobs' = [jobs EXCEPT ![j].pc = "agent",
                                ![j].existing = [k \in 1..Len(found) |-> found[k].point_id]]
    /\ UNCHANGED <<store, nextId, clock, pending, loopPc, gathered, exitPath>>

\* update_memories up to the agent: embed the latest user message, then
\* search_memories(search_vector=embedding, user_id=user_id)
JobRetrieve(j, q) ==
    /\ jobs[j].pc = "ready" /\ LoopFree
    /\ LET found == SearchMemories(store, q, DefaultUser, <<>>, DefaultTopK, FALSE)
       IN  jobs' = [jobs EXCEPT ![j].pc = "agent",
                                ![j].existing = [k \in 1..Len(found) |-> found[k].point_id]]
    /\ UNCHANGED <<store, nextId, clock, pending, loopPc, gathered, exitPath>>

\* generate_embeddings raises in update_memories, or the agent's LLM call raises:
\* _run's except Exception reports the failure
JobFail(j) ==
    /\ jobs[j].pc \in {"ready", "agent"} /\ LoopFree
    /\ jobs' = [jobs EXCEPT ![j] = [NewJob EXCEPT !.pc = "failed"]]
    /\ UNCHANGED <<store, nextId, clock, pending, loopPc, gathered, exitPath>>

\* the agent returns its summary; _run prints it
JobFinish(j) ==
    /\ jobs[j].pc = "agent" /\ LoopFree
    /\ jobs' = [jobs EXCEPT ![j] = [NewJob EXCEPT !.pc = "done"]]
    /\ UNCHANGED <<store, nextId, clock, pending, loopPc, gathered, exitPath>>

\* add_new_memory(memory_text, categories)
ToolAddNewMemory(j, inp, d, t) ==
    /\ jobs[j].pc = "agent" /\ LoopFree
    /\ AddMemory(DefaultUser, inp, d, t)
    /\ UNCHANGED <<jobs, pending, loopPc, gathered, exitPath>>

\* update_existing_memory / supersede_memory with a memory_id for which
\* existing_memories[memory_id] raises IndexError
ToolBadIndex(j, tool, i) ==
    /\ jobs[j].pc = "agent" /\ LoopFree
    /\ tool \in {"update", "supersede"}
    /\ ~PyValidIndex(Len(jobs[j].existing), i)
    /\ UNCHANGED <<store, nextId, clock, jobs, pending, loopPc, gathered, exitPath>>

\* generate_embeddings or add_memory raises inside add_new_memory
ToolAddNewMemoryFail(j) ==
    /\ jobs[j].pc = "agent" /\ LoopFree
    /\ UNCHANGED <<store, nextId, clock, jobs, pending, loopPc, gathered, exitPath>>

\* update_existing_memory / supersede_memory up to the fetch inside mark_memory_old:
\* point_id = get_point_id(memory_id); result = col.get(ids=[point_id], ...)
ToolMarkFetch(j, tool, i, inp) ==
    /\ jobs[j].pc = "agent" /\ LoopFree
    /\ PyValidIndex(Len(jobs[j].existing), i)
    /\ LET point_id == GetPointId(jobs[j].existing, i)
       IN  jobs' = [jobs EXCEPT
                    ![j].pc = "marking", ![j].tool = tool,
                    ![j].inp = inp, ![j].pid = point_id,
                    ![j].fetched = IF point_id \in DOMAIN store
                                   THEN <<store[point_id]>> ELSE <<>>]
    /\ UNCHANGED <<store, nextId, clock, pending, loopPc, gathered, exitPath>>

\* the rest of mark_memory_old._mark, in its worker thread: stamp and re-upsert
\* the fetched metadata (the thread runs on whatever happens to the task)
MarkUpsert(j, t) ==
    /\ jobs[j].fetched # <<>>
    /\ t \in NowSet
    /\ store' = Upsert(store, jobs[j].pid, MarkedMeta(jobs[j].fetched[1], t))
    /\ clock' = t
    /\ jobs' = [jobs EXCEPT ![j].fetched = <<>>]
    /\ UNCHANGED <<nextId, pending, loopPc, gathered, exitPath>>

\* variant of MarkReturn for C20: mark_memory_old is not awaited, the tool
\* goes on while the worker thread has yet to upsert
MarkReturnEarly(j) ==
    /\ jobs[j].pc = "marking" /\ LoopFree
    /\ jobs' = [jobs EXCEPT ![j] =
                    IF jobs[j].tool = "update"
                    THEN [@ EXCEPT !.pc = "upd_add"]
                    ELSE [NewJob EXCEPT !.pc = "agent", !.existing = jobs[j].existing]]
    /\ UNCHANGED <<store, nextId, clock, pending, loopPc, gathered, exitPath>>

\* await mark_memory_old(point_id) returns: supersede_memory returns,
\* update_existing_memory goes on to the replacement, point_id still in scope
MarkReturn(j) ==
    /\ jobs[j].pc = "marking" /\ LoopFree
    /\ jobs[j].fetched = <<>>
    /\ jobs' = [jobs EXCEPT ![j] =
                    IF jobs[j].tool = "update"
                    THEN [@ EXCEPT !.pc = "upd_add"]
                    ELSE [NewJob EXCEPT !.pc = "agent", !.existing = jobs[j].existing]]
    /\ UNCHANGED <<store, nextId, clock, pending, loopPc, gathered, exitPath>>

\* variant of UpdateAdd for C21: the legacy in-place update, the new text
\* written under the referenced id
UpdateAddInPlace(j, d, t) ==
    /\ jobs[j].pc = "upd_add" /\ LoopFree
    /\ nextId <= MaxIds
    /\ d \in NowSet /\ t \in Times /\ d <= t /\ t <= d + 1
    /\ store' = Upsert(store, jobs[j].pid, NewMeta(DefaultUser, jobs[j].inp[1], d, t, 1))
    /\ nextId' = nextId + 1
    /\ clock' = t
    /\ jobs' = [jobs EXCEPT ![j] =
                    [NewJob EXCEPT !.pc = "agent", !.existing = jobs[j].existing]]
    /\ UNCHANGED <<pending, loopPc, gathered, exitPath>>

\* update_existing_memory after the invalidation: embed, then add_memory
UpdateAdd(j, d, t) ==
    /\ jobs[j].pc = "upd_add" /\ LoopFree
    /\ AddMemory(DefaultUser, jobs[j].inp[1], d, t)
    /\ jobs' = [jobs EXCEPT ![j] =
                    [NewJob EXCEPT !.pc = "agent", !.existing = jobs[j].existing]]
    /\ UNCHANGED <<pending, loopPc, gathered, exitPath>>

\* variant of UpdateAddFail for C22: the exception is not caught around the
\* tool call and ends the task in _run's except
UpdateAddFailEndsTask(j) ==
    /\ jobs[j].pc = "upd_add" /\ LoopFree
    /\ jobs' = [jobs EXCEPT ![j] = [NewJob EXCEPT !.pc = "failed"]]
    /\ UNCHANGED <<store, nextId, clock, pending, loopPc, gathered, exitPath>>

\* generate_embeddings or add_memory raises inside update_existing_memory
UpdateAddFail(j) ==
    /\ jobs[j].pc = "upd_add" /\ LoopFree
    /\ jobs' = [jobs EXCEPT ![j] =
                    [NewJob EXCEPT !.pc = "agent", !.existing = jobs[j].existing]]
    /\ UNCHANGED <<store, nextId, clock, pending, loopPc, gathered, exitPath>>

\* task.add_done_callback(_pending_memory_tasks.discard), run by the event loop
TaskDoneCallback(j) ==
    /\ TaskDone(j) /\ j \in pending
    /\ loopPc # "prompt"
    /\ pending' = pending \ {j}
    /\ UNCHANGED <<store, nextId, clock, jobs, loopPc, gathered, exitPath>>

---------------------------------------------------------------------------
(* chat_loop *)

\* _HISTORICAL_KEYWORDS, each as its run of words
HistoricalKeywords ==
    { <<"before">>, <<"previously">>, <<"used", "to">>, <<"old">>, <<"past">>,
      <<"prior">>, <<"earlier">>, <<"last", "time">>, <<"back", "then">>,
      <<"formerly">>, <<"previous">>, <<"history">>, <<"what", "was">>,
      <<"where", "did", "i">>, <<"who", "did", "i">>, <<"when", "did", "i">>,
      <<"what", "did", "i">> }

\* the lines a user types, as runs of words
UserInputs ==
    { <<"where", "do", "I", "live">>,
      <<"Where", "did", "I", "live", "Before">>,
      <<"what", "is", "my", "Previous", "city">> }

\* text.lower(), word by word
Lower(w) ==
    CASE w = "I" -> "i"
      [] w = "Where" -> "where"
      [] w = "Before" -> "before"
      [] w = "Previous" -> "previous"
      [] OTHER -> w

LowerText(text) == [n \in 1..Len(text) |-> Lower(text[n])]

\* kw in lower (a keyword matches as a run of whole words)
Contains(text, kw) ==
    \E n \in 0..(Len(text) - Len(kw)) : SubSeq(text, n + 1, n + Len(kw)) = kw

\* variant of IsHistoricalQuery for C11: no line counts as a question about the past
IsHistoricalQueryNever(text) == FALSE

\* _is_historical_query
IsHistoricalQuery(text) ==
    \E kw \in HistoricalKeywords : Contains(LowerText(text), kw)

\* chat_loop: retrieved = await search_memories(search_vector=search_vec,
\* user_id=user_id, include_old=historical)
ChatRetrieve(s, u, text, q) ==
    SearchMemories(s, q, u, <<>>, DefaultTopK, IsHistoricalQuery(text))

\* a line that is no command: retrieve, answer (the loop awaits)
TurnBegin ==
    /\ loopPc = "prompt"
    /\ loopPc' = "turn"
    /\ UNCHANGED <<store, nextId, clock, jobs, pending, gathered, exitPath>>

\* variant of FireAndForget for C17: the task is created and not tracked
FireAndForgetUntracked(j) ==
    /\ jobs[j].pc = "new"
    /\ \A k \in Jobs : jobs[k].pc = "new" => j <= k
    /\ jobs' = [jobs EXCEPT ![j].pc = "ready"]
    /\ pending' = pending

\* fire_and_forget_memory: task = asyncio.create_task(_run()); track it
FireAndForget(j) ==
    /\ jobs[j].pc = "new"
    /\ \A k \in Jobs : jobs[k].pc = "new" => j <= k
    /\ jobs' = [jobs EXCEPT ![j].pc = "ready"]
    /\ pending' = pending \cup {j}

\* if save: fire_and_forget_memory(...); then back to console.input
TurnEnd(save) ==
    /\ loopPc = "turn"
    /\ loopPc' = "prompt"
    /\ IF save
       THEN \E j \in Jobs : FireAndForget(j)
       ELSE UNCHANGED <<jobs, pending>>
    /\ UNCHANGED <<store, nextId, clock, gathered, exitPath>>

\* /forget, confirmed: await delete_user_records(user_id=user_id)
HandleForget ==
    /\ loopPc = "turn"
    /\ store' = DeleteUser(store, DefaultUser)
    /\ UNCHANGED <<nextId, clock, jobs, pending, loopPc, gathered, exitPath>>

\* /quit, /exit, /q: await save_session_summary(...)
Quit ==
    /\ loopPc = "prompt"
    /\ loopPc' = "quit_summary"
    /\ UNCHANGED <<store, nextId, clock, jobs, pending, gathered, exitPath>>

\* save_session_summary gets as far as add_memory (it returns early on a short
\* session or an empty summary, and swallows its own exceptions)
SessionSummary(inp, d, t) ==
    /\ loopPc \in {"quit_summary", "int_summary"}
    /\ AddMemory(DefaultUser, inp, d, t)
    /\ loopPc' = IF loopPc = "quit_summary" THEN "quit_saved" ELSE "int_saved"
    /\ UNCHANGED <<jobs, pending, gathered, exitPath>>

\* variant of GatherReady for C7: a wait that returns with the first finished task
GatherFirstDone(tasks) == \E j \in tasks : TaskDone(j)

\* asyncio.gather(*tasks, return_exceptions=True) returns once every task is done
GatherReady(tasks) == \A j \in tasks : TaskDone(j)

\* if _pending_memory_tasks: await asyncio.gather(*_pending_memory_tasks, ...)
QuitGather ==
    /\ loopPc \in {"quit_summary", "quit_saved"}
    /\ pending # {}
    /\ loopPc' = "gather"
    /\ gathered' = pending
    /\ UNCHANGED <<store, nextId, clock, jobs, pending, exitPath>>

\* break after the drain (or with nothing tracked); main returns and asyncio.run ends
QuitExit ==
    /\ \/ loopPc \in {"quit_summary", "quit_saved"} /\ pending = {}
       \/ loopPc = "gather" /\ GatherReady(gathered)
    /\ loopPc' = "exited"
    /\ exitPath' = "quit"
    /\ jobs' = CancelAll(jobs)
    /\ UNCHANGED <<store, nextId, clock, pending, gathered>>

\* except (EOFError, KeyboardInterrupt): await save_session_summary(...)
Interrupt ==
    /\ loopPc = "prompt"
    /\ loopPc' = "int_summary"
    /\ UNCHANGED <<store, nextId, clock, jobs, pending, gathered, exitPath>>

\* break on the interrupt path; main returns and asyncio.run ends
InterruptExit ==
    /\ loopPc \in {"int_summary", "int_saved"}
    /\ loopPc' = "exited"
    /\ exitPath' = "interrupt"
    /\ jobs' = CancelAll(jobs)
    /\ UNCHANGED <<store, nextId, clock, pending, gathered>>

---------------------------------------------------------------------------
(* Spec: the whole program, every interleaving, one fact and a clock that   *)
(* stands still (the data that varies is in CallSpec)                       *)

\* the observer watches no tool call
NoCall == [phase |-> "none"]

Indices == -2..2    \* the memory_id values an agent passes

Fact == [text |-> <<"p">>, cats |-> << <<"a">> >>]

Init ==
    /\ store = <<>>
    /\ nextId = 1
    /\ clock = 0
    /\ jobs = [j \in Jobs |-> NewJob]
    /\ pending = {}
    /\ loopPc = "prompt"
    /\ gathered = {}
    /\ exitPath = "none"
    /\ call = NoCall

\* the observer is idle in Spec
Idle == call' = call

Next ==
    \/ HandleForget /\ Idle
    \/ SessionSummary(Fact, clock, clock) /\ Idle
    \/ \E id \in DOMAIN store : ClientDeleteRecords({id}) /\ Idle
    \/ \E j \in Jobs, q \in QueryVecs : JobRetrieve(j, q) /\ Idle
    \/ \E j \in Jobs : JobFail(j) /\ Idle
    \/ \E j \in Jobs : JobFinish(j) /\ Idle
    \/ \E j \in Jobs : ToolAddNewMemory(j, Fact, clock, clock) /\ Idle
    \/ \E j \in Jobs : ToolAddNewMemoryFail(j) /\ Idle
    \/ \E j \in Jobs, tool \in {"update", "supersede"}, i \in Indices :
            ToolBadIndex(j, tool, i) /\ Idle
    \/ \E j \in Jobs, i \in Indices : ToolMarkFetch(j, "update", i, <<Fact>>) /\ Idle
    \/ \E j \in Jobs, i \in Indices : ToolMarkFetch(j, "supersede", i, <<>>) /\ Idle
    \/ \E j \in Jobs : MarkUpsert(j, clock) /\ Idle
    \/ \E j \in Jobs : MarkReturn(j) /\ Idle
    \/ \E j \in Jobs : UpdateAdd(j, clock, clock) /\ Idle
    \/ \E j \in Jobs : UpdateAddFail(j) /\ Idle
    \/ \E j \in Jobs : TaskDoneCallback(j) /\ Idle
    \/ TurnBegin /\ Idle
    \/ \E save \in BOOLEAN : TurnEnd(save) /\ Idle
    \/ Quit /\ Idle
    \/ QuitGather /\ Idle
    \/ QuitExit /\ Idle
    \/ Interrupt /\ Idle
    \/ InterruptExit /\ Idle

Spec == Init /\ [][Next]_vars

---------------------------------------------------------------------------
(* StoreSpec: the store API alone, called in any order for two users and two *)
(* facts, with a clock that invalidations advance; no task is launched.      *)

StoreNext ==
    \/ \E u \in Users, inp \in MemInputs :
          /\ nextId <= StoreMaxIds
          /\ ClientAddMemory(u, inp, clock, clock)
          /\ Idle
    \/ \E id \in 1..(nextId - 1), t \in Times : ClientMarkMemoryOld(id, t) /\ Idle
    \/ \E u \in Users : ClientDeleteUserRecords(u) /\ Idle
    \/ \E id \in DOMAIN store : ClientDeleteRecords({id}) /\ Idle

StoreSpec == Init /\ [][StoreNext]_vars

---------------------------------------------------------------------------
(* LabelSpec: the store API with the category lists a caller may pass: two   *)
(* labels, a label that holds a comma, a padded label, no label at all.  The *)
(* observer keeps the list each record was created with (the store keeps     *)
(* only the joined string).                                                  *)

LabelInputs ==
    { [text |-> <<"p">>, cats |-> << <<"a">>, <<"b">> >>],
      [text |-> <<"p">>, cats |-> << <<"b">>, <<"A">> >>],
      [text |-> <<"q">>, cats |-> << <<"a", ",", "b">> >>],
      [text |-> <<"q">>, cats |-> << <<" ", "a">> >>],
      [text |-> <<"q">>, cats |-> <<>>] }

LabelFilters == { << <<"a">> >>, << <<"b">> >>, << <<"A">>, <<"b">> >> }

LabelInit ==
    /\ store = <<>>
    /\ nextId = 1
    /\ clock = 0
    /\ jobs = [j \in Jobs |-> NewJob]
    /\ pending = {}
    /\ loopPc = "prompt"
    /\ gathered = {}
    /\ exitPath = "none"
    /\ call = [phase |-> "labels", given |-> <<>>]

LabelNext ==
    \/ \E u \in Users, inp \in LabelInputs :
          /\ nextId <= LabelMaxIds
          /\ ClientAddMemory(u, inp, clock, clock)
          /\ call' = [call EXCEPT !.given = Upsert(@, nextId, inp.cats)]
    \/ \E id \in DOMAIN store : ClientMarkMemoryOld(id, clock) /\ Idle
    \/ \E u \in Users : ClientDeleteUserRecords(u) /\ Idle

LabelSpec == LabelInit /\ [][LabelNext]_vars

---------------------------------------------------------------------------
(* BatchSpec: add_memory called with batches of zero, one or two records,    *)
(* well-formed or not, and delete_user_records.  The observer keeps the      *)
(* batch of the last add_memory call, the store the call started from and    *)
(* the first id it drew.                                                     *)

\* the dimension of the collection's vectors (one coordinate per text)
Dim == 1

\* m.date as the caller wrote it: an ISO date-time of a clock reading, or a
\* string datetime.fromisoformat rejects
Dates(now) == { [iso |-> TRUE, at |-> now], [iso |-> FALSE, at |-> 0] }

\* the EmbeddedMemory values of a batch: dims is len(m.embedding)
BatchItems(now) ==
    { [user_id |-> u, inp |-> Fact, date |-> d, dims |-> n] :
          u \in Users, d \in Dates(now), n \in {Dim, Dim + 1} }

Batches(now) ==
    {<<>>} \cup { <<m>> : m \in BatchItems(now) }
           \cup { <<m1, m2>> : m1 \in BatchItems(now), m2 \in BatchItems(now) }

\* the metadatas list is built before col.upsert is called:
\* datetime.fromisoformat(m.date) raises ValueError on a malformed date
MetadatasRaise(batch) == \E k \in DOMAIN batch : ~batch[k].date.iso

\* col.upsert validates the record set before it writes: no ids, or an
\* embedding whose length is not the collection's, raises
UpsertRaises(batch) ==
    \/ batch = <<>>
    \/ \E k \in DOMAIN batch : batch[k].dims # Dim

AddMemoryRaises(batch) == MetadatasRaise(batch) \/ UpsertRaises(batch)

\* col.upsert(ids=[...], metadatas=[...]): the whole batch in one call, the
\* k-th record under the k-th fresh id
RECURSIVE UpsertAll(_, _, _, _)
UpsertAll(s, first, batch, now) ==
    IF batch = <<>> THEN s
    ELSE UpsertAll(Upsert(s, first,
                          NewMeta(Head(batch).user_id, Head(batch).inp,
                                  Head(batch).date.at, now, 1)),
                   first + 1, Tail(batch), now)

\* variant of AddBatch for C18: one upsert per record, so the records before
\* the first one that fails are written
RECURSIVE AddBatchOneByOne(_, _, _, _)
AddBatchOneByOne(s, first, batch, now) ==
    IF batch = <<>> \/ AddMemoryRaises(<<Head(batch)>>) THEN s
    ELSE AddBatchOneByOne(UpsertAll(s, first, <<Head(batch)>>, now),
                          first + 1, Tail(batch), now)

\* add_memory._add on a batch: the store it leaves
AddBatch(s, first, batch, now) ==
    IF AddMemoryRaises(batch) THEN s ELSE UpsertAll(s, first, batch, now)

\* add_memory(embedded_memories) called with any batch; the ids are drawn
\* before the metadatas are built
ClientAddBatch(batch) ==
    /\ loopPc # "exited"
    /\ nextId + Len(batch) - 1 <= BatchMaxIds
    /\ store' = AddBatch(store, nextId, batch, clock)
    /\ nextId' = nextId + Len(batch)
    /\ call' = [phase |-> "batch", batch |-> batch, before |-> store, first |-> nextId]
    /\ UNCHANGED <<clock, jobs, pending, loopPc, gathered, exitPath>>

\* the observer after any other call
NoBatch == [phase |-> "batch", batch |-> <<>>, before |-> <<>>, first |-> 0]

BatchInit ==
    /\ store = <<>>
    /\ nextId = 1
    /\ clock = 0
    /\ jobs = [j \in Jobs |-> NewJob]
    /\ pending = {}
    /\ loopPc = "prompt"
    /\ gathered = {}
    /\ exitPath = "none"
    /\ call = NoBatch

BatchNext ==
    \/ \E batch \in Batches(clock) : ClientAddBatch(batch)
    \/ \E u \in Users : ClientDeleteUserRecords(u) /\ call' = NoBatch

BatchSpec == BatchInit /\ [][BatchNext]_vars

---------------------------------------------------------------------------
(* RaceSpec: two tasks of the same user, launched in successive turns, over *)
(* a collection that holds one current record of that user; each gets its   *)
(* snapshot and calls update_existing_memory once, the steps of the two      *)
(* interleaved at every await.  The observer keeps, per task, the record its *)
(* update referred to and the id of the replacement it created.              *)

\* the record both tasks may refer to
RaceP == 1

RaceInit ==
    /\ store = Upsert(<<>>, RaceP, NewMeta(DefaultUser, Fact, 0, 0, 1))
    /\ nextId = RaceP + 1
    /\ clock = 0
    /\ jobs = [j \in Jobs |-> [NewJob EXCEPT !.pc = "ready"]]
    /\ pending = Jobs
    /\ loopPc = "turn"
    /\ gathered = {}
    /\ exitPath = "none"
    /\ call = [phase |-> "race", ref |-> [j \in Jobs |-> 0], new |-> [j \in Jobs |-> 0]]

RaceNext ==
    \/ \E j \in Jobs, q \in QueryVecs : JobRetrieve(j, q) /\ Idle
    \/ \E j \in Jobs, i \in Indices, inp \in MemInputs :
          /\ call.ref[j] = 0
          /\ ToolMarkFetch(j, "update", i, <<inp>>)
          /\ call' = [call EXCEPT !.ref[j] = GetPointId(jobs[j].existing, i)]
    \/ \E j \in Jobs, t \in Times : MarkUpsert(j, t) /\ Idle
    \/ \E j \in Jobs : MarkReturn(j) /\ Idle
    \/ \E j \in Jobs, t \in Times :
          /\ UpdateAdd(j, clock, t)
          /\ call' = [call EXCEPT !.new[j] = nextId]
    \/ \E j \in Jobs : call.ref[j] # 0 /\ JobFinish(j) /\ Idle

RaceSpec == RaceInit /\ [][RaceNext]_vars

---------------------------------------------------------------------------
(* CallSpec: the store API and the reconciliation tools, one call at a time, *)
(* with two users, two facts and a clock that invalidations advance.  The    *)
(* collection starts with a record of user 2 persisted by an earlier         *)
(* session; chat_loop stays suspended in a turn of user 1 with task 1        *)
(* launched; the other writers are callers of the store API.  The observer   *)
(* `call` keeps the store a tool call of the task started from until the     *)
(* step after the call.                                                      *)

\* the observer's record of the tool call of task j that starts in this state
Watch(j, tool, i, inp, phase, err) ==
    [ job   |-> j,
      tool  |-> tool,
      idx   |-> i,
      inp   |-> inp,
      n     |-> Len(jobs[j].existing),
      pid   |-> IF PyValidIndex(Len(jobs[j].existing), i) /\ tool # "add"
                THEN GetPointId(jobs[j].existing, i) ELSE 0,
      pre   |-> store,
      phase |-> phase,
      err   |-> err ]

Quiet == call.phase \in {"none", "returned"}

Running(j) == call.phase = "running" /\ call.job = j

Watched == {1}

\* chromadb.PersistentClient(path="./chroma_db"): the collection an earlier
\* session left on disk, here one record of the other user
Persisted == Upsert(<<>>, 1, NewMeta(2, Fact, 0, 0, 1))

CallInit ==
    /\ store = Persisted
    /\ nextId = 2
    /\ clock = 0
    /\ jobs = [j \in Jobs |-> IF j \in Watched THEN [NewJob EXCEPT !.pc = "ready"]
                                              ELSE NewJob]
    /\ pending = Watched
    /\ loopPc = "turn"
    /\ gathered = {}
    /\ exitPath = "none"
    /\ call = NoCall

CallNext ==
    \/ \E inp \in MemInputs :
          /\ Quiet
          /\ nextId <= CallMaxIds
          /\ ClientAddMemory(DefaultUser, inp, clock, clock)
          /\ call' = NoCall
    \/ \E u \in Users :
          /\ Quiet
          /\ ClientDeleteUserRecords(u)
          /\ call' = NoCall
    \/ \E j \in Watched, q \in QueryVecs :
          /\ Quiet
          /\ JobRetrieve(j, q)
          /\ call' = NoCall
    \/ \E j \in Watched, inp \in MemInputs :
          /\ Quiet
          /\ nextId <= CallMaxIds
          /\ ToolAddNewMemory(j, inp, clock, clock)
          /\ call' = Watch(j, "add", 0, <<inp>>, "returned", FALSE)
    \/ \E j \in Watched :
          /\ Quiet
          /\ ToolAddNewMemoryFail(j)
          /\ call' = Watch(j, "add", 0, <<>>, "returned", TRUE)
    \/ \E j \in Watched, tool \in {"update", "supersede"}, i \in Indices :
          /\ Quiet
          /\ ToolBadIndex(j, tool, i)
          /\ call' = Watch(j, tool, i, <<>>, "returned", TRUE)
    \/ \E j \in Watched, i \in Indices, inp \in MemInputs :
          /\ Quiet
          /\ ToolMarkFetch(j, "update", i, <<inp>>)
          /\ call' = Watch(j, "update", i, <<inp>>, "running", FALSE)
    \/ \E j \in Watched, i \in Indices :
          /\ Quiet
          /\ ToolMarkFetch(j, "supersede", i, <<>>)
          /\ call' = Watch(j, "supersede", i, <<>>, "running", FALSE)
    \/ \E j \in Watched, t \in Times :
          /\ Running(j)
          /\ MarkUpsert(j, t)
          /\ call' = call
    \/ \E j \in Watched :
          /\ Running(j)
          /\ MarkReturn(j)
          /\ call' = IF call.tool = "supersede"
                     THEN [call EXCEPT !.phase = "returned"] ELSE call
    \/ \E j \in Watched :
          /\ Running(j)
          /\ nextId <= CallMaxIds
          /\ UpdateAdd(j, clock, clock)
          /\ call' = [call EXCEPT !.phase = "returned"]
    \/ \E j \in Watched :
          /\ Running(j)
          /\ UpdateAddFail(j)
          /\ call' = [call EXCEPT !.phase = "returned", !.err = TRUE]

CallSpec == CallInit /\ [][CallNext]_vars

---------------------------------------------------------------------------
(* Properties of the whole program (Spec) *)

\* C1, monotonic currency.  Ids are never handed out twice (every stored id is
\* below nextId), and no step turns a record that is not current, or an id
\* already handed out and since removed, into a current record: a record is
\* current after a step only if it was current before it or its id is new.
\* Hence once a read of an id sees is_current = 0, no later read sees 1.
C1_MonotonicCurrency ==
    /\ [](\A id \in DOMAIN store : id < nextId)
    /\ [][\A id \in DOMAIN store' :
              store'[id].is_current = 1 =>
                  \/ id \in DOMAIN store /\ store[id].is_current = 1
                  \/ id >= nextId]_vars

\* a superseded record with a further invalidation of it in flight (fetched,
\* not yet written back), next to a current record created later
C1_Witness ==
    \E id \in DOMAIN store :
        /\ store[id].is_current = 0
        /\ \E k \in DOMAIN store : k > id /\ store[k].is_current = 1
        /\ \E j \in Jobs : jobs[j].pc = "marking" /\ jobs[j].pid = id
                             /\ jobs[j].fetched # <<>>

\* C6, shutdown drains.  Whenever chat_loop is left, on the quit path or on
\* the interrupt path, every task still tracked in _pending_memory_tasks has
\* finished (completed or reported its failure).
C6_ShutdownDrains ==
    [][(loopPc # "exited" /\ loopPc' = "exited") =>
           \A j \in pending : jobs[j].pc \in {"done", "failed"}]_vars

\* C7, drain completeness.  Once chat_loop has been left through /quit, every
\* task that was launched has completed or reported its failure: none is still
\* running and none was cut short, whatever the other tasks did.
C7_DrainCompleteness ==
    exitPath = "quit" =>
        \A j \in Jobs : jobs[j].pc \in {"new", "done", "failed"}

\* /quit drained two launched tasks, one of which failed
C7_Witness ==
    /\ exitPath = "quit"
    /\ gathered = Jobs
    /\ jobs[1].pc = "failed"
    /\ jobs[2].pc = "done"

\* C8, no mid-flight cancellation.  No launched task is ever cancelled: in
\* every execution each one ends by completing update_memories or by reporting
\* its own failure.
C8_NoCancellation ==
    \A j \in Jobs : jobs[j].pc # "cancelled"

\* a launched task that has not finished
InFlight(j) == jobs[j].pc \in {"ready", "agent", "marking", "upd_add"}

\* C17 as stated, scheduling and tracking.  In every reachable state
\* _pending_memory_tasks holds exactly the tasks that were launched and have
\* not finished.
C17_ExactTracking ==
    pending = {j \in Jobs : InFlight(j)}

\* C17 as the code has it.  fire_and_forget_memory leaves the task it creates
\* not yet started and adds it, and only it, to _pending_memory_tasks; every
\* launched task that has not finished is tracked and only launched tasks are;
\* a task leaves the set only when it is done (its done callback runs in a
\* later step of the event loop, so a finished task may still be tracked).
C17_Tracking ==
    /\ [](\A j \in Jobs : /\ (InFlight(j) => j \in pending)
                           /\ (j \in pending => jobs[j].pc # "new"))
    /\ [][/\ \A j \in Jobs :
                 (jobs[j].pc = "new" /\ jobs'[j].pc # "new") =>
                     /\ jobs'[j].pc = "ready"
                     /\ pending' = pending \cup {j}
                     /\ loopPc' = "prompt"
          /\ \A j \in pending \ pending' : TaskDone(j)
          /\ \A j \in pending' \ pending : jobs[j].pc = "new"]_vars

\* task 1 has finished and left the set, task 2 is running and tracked
C17_Witness ==
    /\ jobs[1].pc = "done" /\ 1 \notin pending
    /\ jobs[2].pc = "agent" /\ pending = {2}

\* the record update_existing_memory of task j referred to is current
ReferencedIsCurrent(s, j) ==
    jobs[j].pid \in DOMAIN s /\ s[jobs[j].pid].is_current = 1

\* C20, UPDATE ordering.  Inside update_existing_memory the invalidation of
\* the referenced record is complete before the replacement is created: from
\* the return of mark_memory_old until the tool returns the referenced record
\* is not current, and the step that creates the replacement leaves the
\* replacement current and the referenced record not current, whatever the
\* other tasks and callers do in between.
C20_UpdateOrdering ==
    /\ [](\A j \in Jobs : jobs[j].pc = "upd_add" => ~ReferencedIsCurrent(store, j))
    /\ [][\A j \in Jobs :
            (jobs[j].pc = "upd_add" /\ jobs'[j].pc # "upd_add" /\ store' # store) =>
                /\ DOMAIN store' = DOMAIN store \cup {nextId}
                /\ nextId \notin DOMAIN store
                /\ store'[nextId].is_current = 1
                /\ store'[nextId].memory_text = jobs[j].inp[1].text
                /\ ~ReferencedIsCurrent(store', j)]_vars

\* task 2 is between the invalidation and the replacement of an update of a
\* record that the update of task 1 has already superseded and replaced
C20_Witness ==
    /\ jobs[1].pc = "agent"
    /\ jobs[2].pc = "upd_add"
    /\ jobs[2].pid \in DOMAIN store
    /\ store[jobs[2].pid].is_current = 0
    /\ \E id \in DOMAIN store :
           /\ id > jobs[2].pid
           /\ store[id].is_current = 1
           /\ store[id].user_id = DefaultUser

\* C25, deletion is permanent under concurrency.  Ids are handed out once, so
\* an id below nextId that is not in the store has been deleted by
\* delete_user_records or delete_records; no later step brings a record back
\* under such an id, also when a mark_memory_old on that id is under way.
C25_DeletionPermanent ==
    [][\A id \in 1..(nextId - 1) :
           id \notin DOMAIN store => id \notin DOMAIN store']_vars

---------------------------------------------------------------------------
(* Properties of the store API (StoreSpec) *)

TopKs == {1, DefaultTopK}

\* C4, default visibility.  For every query vector, user, category filter and
\* top_k, search_memories(..., include_old=False) returns no record whose
\* stored is_current is 0 (and reports is_current = 1 for what it returns).
C4_DefaultVisibility ==
    \A q \in QueryVecs, u \in Users, cats \in CatFilters, k \in TopKs :
        LET out == SearchMemories(store, q, u, cats, k, FALSE)
        IN  \A n \in 1..Len(out) :
                /\ store[out[n].point_id].is_current # 0
                /\ out[n].is_current = 1

\* the store holds a superseded and a current record of one user; the default
\* search returns only the current one, include_old=True returns both
C4_Witness ==
    \E q \in QueryVecs, u \in Users :
        LET old == SearchMemories(store, q, u, <<>>, DefaultTopK, TRUE)
            cur == SearchMemories(store, q, u, <<>>, DefaultTopK, FALSE)
        IN  /\ Len(old) = 2 /\ Len(cur) = 1
            /\ \E n \in 1..2 : old[n].is_current = 0
            /\ \E n \in 1..2 : old[n].is_current = 1

\* C5, user isolation.  For distinct users A and B, search_memories and
\* fetch_all_user_records for A return only records stored for A, and
\* delete_user_records(A) keeps every record of B, with all its fields.
C5_UserIsolation ==
    \A A \in Users : \A B \in Users \ {A} :
        /\ \A q \in QueryVecs, cats \in CatFilters, k \in TopKs, old \in BOOLEAN :
               LET out == SearchMemories(store, q, A, cats, k, old)
               IN  \A n \in 1..Len(out) :
                       /\ out[n].user_id # B
                       /\ store[out[n].point_id].user_id = A
        /\ \A r \in FetchAllUserRecords(store, A) :
               r.user_id # B /\ store[r.point_id].user_id = A
        /\ \A id \in DOMAIN store :
               store[id].user_id = B =>
                   /\ id \in DOMAIN DeleteUser(store, A)
                   /\ DeleteUser(store, A)[id] = store[id]
        /\ \A id \in DOMAIN DeleteUser(store, A) : store[id].user_id # A

\* the records of user 1 are gone (an id handed out is no longer stored), the
\* record of user 2 is there, superseded; a search for user 2 returns it and
\* a search for user 1 returns nothing
C5_Witness ==
    /\ \E id \in 1..(nextId - 1) : id \notin DOMAIN store
    /\ \E id \in DOMAIN store : store[id].is_current = 0
    /\ \A id \in DOMAIN store : store[id].user_id = 2
    /\ Len(SearchMemories(store, 0, 2, <<>>, DefaultTopK, TRUE)) = 1
    /\ SearchMemories(store, 0, DefaultUser, <<>>, DefaultTopK, TRUE) = <<>>
    /\ FetchAllUserRecords(store, DefaultUser) = {}

\* C13, score and relevance floor.  Score is 1 - d/2 (1 at d = 0, 0.5 at d = 1,
\* 0 at d = 2); every result of search_memories carries the score of its
\* record's distance to the query and none has a score below 0.5; and a record
\* is discarded for its score only if that score is below 0.5: with no other
\* filter in the way, every record of the user with score 0.5 or more is
\* returned (the user has fewer than top_k records).
C13_ScoreFloor ==
    /\ Score(0) = 4 /\ Score(2) = 2 /\ Score(4) = 0
    /\ \A q \in QueryVecs, u \in Users :
        /\ \A cats \in CatFilters, old \in BOOLEAN :
               LET out == SearchMemories(store, q, u, cats, DefaultTopK, old)
               IN  \A n \in 1..Len(out) :
                       /\ out[n].score =
                              Score(Distance(q, store[out[n].point_id].embedding))
                       /\ out[n].score >= 2
        /\ LET out == SearchMemories(store, q, u, <<>>, DefaultTopK, TRUE)
                own == {id \in DOMAIN store : store[id].user_id = u}
           IN  Cardinality(own) < DefaultTopK =>
                   \A id \in own :
                       (Score(Distance(q, store[id].embedding)) >= 2) <=>
                           (\E n \in 1..Len(out) : out[n].point_id = id)

\* one user has a record at distance 1 (score exactly 0.5), which is returned,
\* and a record at distance 2 (score 0), which is not
C13_Witness ==
    \E q \in QueryVecs, u \in Users :
        LET out == SearchMemories(store, q, u, <<>>, DefaultTopK, TRUE)
        IN  /\ Len(out) = 1
            /\ out[1].score = 2
            /\ \E id \in DOMAIN store :
                   /\ store[id].user_id = u
                   /\ Score(Distance(q, store[id].embedding)) = 0

\* the records stored before and after the step that differ
Changed == {id \in DOMAIN store \cap DOMAIN store' : store'[id] # store[id]}

\* C14, records change only by invalidation.  In every step of any sequence of
\* store operations, a record that is stored before and after the step is
\* either unchanged or has is_current = 0 and a superseded_at stamp afterwards
\* with its user_id, text, categories, embedding, document, date, timestamp
\* and saved_at as before (its id is its key); such a step changes one record
\* only and adds or removes none.
C14_ImmutableRecords ==
    [][/\ \A id \in Changed :
              /\ store'[id].is_current = 0
              /\ HasStamp(store'[id])
              /\ DOMAIN store'[id] = DOMAIN store[id] \cup {"superseded_at"}
              /\ \A f \in DOMAIN store[id] \ {"is_current", "superseded_at"} :
                     store'[id][f] = store[id][f]
       /\ Changed # {} =>
              /\ Cardinality(Changed) = 1
              /\ DOMAIN store' = DOMAIN store]_vars

\* a record invalidated at a later clock reading than it was saved at, next
\* to a current record
C14_Witness ==
    \E id \in DOMAIN store :
        /\ store[id].is_current = 0
        /\ store[id].superseded_at > store[id].saved_at
        /\ \E k \in DOMAIN store : k # id /\ store[k].is_current = 1

\* C16, empty store.  On a store with no records search_memories (whether the
\* index query returns nothing or raises), fetch_all_user_records and
\* get_all_categories return empty collections; and on any store
\* search_memories returns the empty list when the index query raises.
C16_EmptyStore ==
    /\ \A q \in QueryVecs, u \in Users, cats \in CatFilters, old \in BOOLEAN :
           SearchMemoriesTry(store, q, u, cats, DefaultTopK, old, TRUE) = <<>>
    /\ store = <<>> =>
           \A u \in Users :
               /\ FetchAllUserRecords(store, u) = {}
               /\ GetAllCategories(store, u) = <<>>
               /\ \A q \in QueryVecs, cats \in CatFilters, old \in BOOLEAN,
                     raises \in BOOLEAN :
                      SearchMemoriesTry(store, q, u, cats, DefaultTopK, old, raises) = <<>>

\* a store emptied again after records were created in it
C16_Witness ==
    /\ store = <<>>
    /\ nextId > StoreMaxIds
    /\ clock > 0

\* C24, superseded_at tracks the transition.  A record has a superseded_at
\* stamp if and only if its is_current is 0, and the stamp is written exactly
\* once, at the step where is_current changes from 1 to 0: no step writes it
\* on a record that stays current or rewrites it on a superseded record.
C24_StampTracksTransition ==
    [][/\ \A id \in DOMAIN store' :
              HasStamp(store'[id]) <=> store'[id].is_current = 0
       /\ \A id \in DOMAIN store \cap DOMAIN store' :
              /\ HasStamp(store[id]) =>
                     /\ HasStamp(store'[id])
                     /\ store'[id].superseded_at = store[id].superseded_at
              /\ (~HasStamp(store[id]) /\ HasStamp(store'[id])) =>
                     store[id].is_current = 1 /\ store'[id].is_current = 0]_vars

\* the top_k values a caller may pass, zero included
SearchTopKs == {0, 1, 2, DefaultTopK}

\* the candidate passes the score floor, the visibility rule and the category
\* filter of search_memories
Passes(s, q, id, cats, include_old) ==
    /\ ~BelowFloor(Score(Distance(q, s[id].embedding)))
    /\ ~HiddenAsOld(s[id], include_old)
    /\ ~FilteredByCategory(s[id], cats)

\* C23, result size and order.  search_memories returns at most top_k
\* results, in the relative order in which the index returned the candidates
\* (scores never increasing), and they are exactly the first top_k of the
\* fetch_k candidates that pass the score floor, the visibility rule and the
\* category filter.
C23_ResultSizeAndOrder ==
    \A q \in QueryVecs, u \in Users, cats \in CatFilters, old \in BOOLEAN,
       top_k \in SearchTopKs :
        LET out    == SearchMemories(store, q, u, cats, top_k, old)
            cand   == QueryIndex(store, q, u, FetchK(cats, top_k, old))
            Ok(id) == Passes(store, q, id, cats, old)
            pass   == SelectSeq(cand, Ok)
            n      == IF Len(pass) < top_k THEN Len(pass) ELSE top_k
        IN  /\ Len(out) <= top_k
            /\ [k \in 1..Len(out) |-> out[k].point_id] = SubSeq(pass, 1, n)
            /\ \A k \in 1..(Len(out) - 1) : out[k].score >= out[k + 1].score

---------------------------------------------------------------------------
(* Properties of the category labels (LabelSpec) *)

\* the category set the record was created with, each label trimmed
GivenLabels(id) == {Strip(c) : c \in SeqRange(call.given[id])}

\* C12, category filter.  search_memories(..., categories=C) with a supplied
\* list C returns only records whose category set (the labels the record was
\* created with, trimmed) has an element in common with C.
C12_CategoryFilter ==
    \A q \in QueryVecs, u \in Users, C \in LabelFilters, old \in BOOLEAN :
        LET out == SearchMemories(store, q, u, C, DefaultTopK, old)
        IN  \A n \in 1..Len(out) :
                GivenLabels(out[n].point_id) \cap SeqRange(C) # {}

\* C15, full erasure.  In every store, once delete_user_records(u) has run no
\* record of u is left, current or superseded, and fetch_all_user_records(u),
\* get_all_categories(u) and every search_memories for u return nothing.
C15_FullErasure ==
    \A u \in Users :
        LET erased == DeleteUser(store, u)
        IN  /\ \A id \in DOMAIN erased : erased[id].user_id # u
            /\ FetchAllUserRecords(erased, u) = {}
            /\ GetAllCategories(erased, u) = <<>>
            /\ \A q \in QueryVecs, C \in LabelFilters \cup {<<>>}, old \in BOOLEAN :
                   SearchMemories(erased, q, u, C, DefaultTopK, old) = <<>>

\* both ids were handed out and only delete_user_records removes records here:
\* the record of user 1 is erased, the one of user 2 is left, superseded
C15_Witness ==
    /\ nextId = 3
    /\ DOMAIN store = {2}
    /\ store[2].user_id = 2 /\ store[2].is_current = 0
    /\ FetchAllUserRecords(store, DefaultUser) = {}
    /\ GetAllCategories(store, DefaultUser) = <<>>
    /\ GetAllCategories(store, 2) # <<>>

\* C19, category listing.  get_all_categories(u) returns, sorted and without
\* duplicates, exactly the labels (trimmed, case-sensitive) that the records
\* of u, current and superseded, were created with, and no other label.
C19_CategoryListing ==
    \A u \in Users :
        GetAllCategories(store, u) =
            Sorted(UNION { GivenLabels(id) :
                             id \in {i \in DOMAIN store : store[i].user_id = u} })

---------------------------------------------------------------------------
(* Properties of add_memory on batches (BatchSpec) *)

\* the ids the last add_memory call drew, one per record of its batch
BatchIds == call.first .. (call.first + Len(call.batch) - 1)

\* C18, batch create is all-or-nothing.  After add_memory(batch) either every
\* record of the batch is in the store, the k-th under the k-th of as many
\* fresh ids, none of which was in the store before, and the records that
\* were there are as they were; or, when the call fails for some record of
\* the batch (a malformed date, an embedding of the wrong dimension), the
\* store is as it was before the call.
C18_BatchAllOrNothing ==
    call.first > 0 =>
        IF \E k \in DOMAIN call.batch :
               ~call.batch[k].date.iso \/ call.batch[k].dims # Dim
        THEN store = call.before
        ELSE /\ BatchIds \cap DOMAIN call.before = {}
             /\ DOMAIN store = DOMAIN call.before \cup BatchIds
             /\ Cardinality(DOMAIN store) =
                    Cardinality(DOMAIN call.before) + Len(call.batch)
             /\ \A i \in DOMAIN call.before : store[i] = call.before[i]
             /\ \A k \in DOMAIN call.batch :
                    LET r == store[call.first + k - 1]
                        m == call.batch[k]
                    IN  /\ r.user_id = m.user_id
                        /\ r.memory_text = m.inp.text
                        /\ r.categories = Join(m.inp.cats)
                        /\ r.date = m.date.at
                        /\ r.is_current = 1

\* on a store that held a record, a batch of two whose first record is well
\* formed and whose second has a malformed date was refused
C18_Witness ==
    /\ call.first > 0 /\ Len(call.batch) = 2
    /\ ~AddMemoryRaises(<<call.batch[1]>>)
    /\ ~call.batch[2].date.iso
    /\ call.before # <<>>
    /\ store = call.before

---------------------------------------------------------------------------
(* Properties of two racing tasks (RaceSpec) *)

\* the update of task j referred to P and has returned
UpdatedP(j) == call.ref[j] = RaceP /\ call.new[j] # 0

\* C21, accepted cross-batch race.  When two tasks of the same user both hold
\* a snapshot with the current record P and both call update_existing_memory
\* on P, then in every interleaving each call runs to its return (the second
\* invalidation finds P superseded and writes is_current = 0 again), after
\* it P is there with is_current = 0, and once both have returned each has
\* left its own current replacement, two current records for the one fact.
C21_CrossBatchRace ==
    /\ \A j \in Jobs : (call.ref[j] = RaceP /\ jobs[j].pc \in {"agent", "done"}) =>
                             UpdatedP(j)
    /\ \A j \in Jobs : UpdatedP(j) =>
           /\ RaceP \in DOMAIN store
           /\ store[RaceP].is_current = 0
           /\ HasStamp(store[RaceP])
    /\ (\A j \in Jobs : UpdatedP(j)) =>
           /\ call.new[1] # call.new[2]
           /\ \A j \in Jobs :
                  /\ call.new[j] \in DOMAIN store
                  /\ store[call.new[j]].is_current = 1
                  /\ store[call.new[j]].user_id = DefaultUser
           /\ {id \in DOMAIN store : store[id].is_current = 1} =
                  {call.new[j] : j \in Jobs}

\* both updates of P have returned and both tasks have finished; the two
\* replacements carry the same text
C21_Witness ==
    /\ \A j \in Jobs : UpdatedP(j) /\ jobs[j].pc = "done"
    /\ store[call.new[1]].memory_text = store[call.new[2]].memory_text
    /\ store[call.new[1]].is_current = 1 /\ store[call.new[2]].is_current = 1

---------------------------------------------------------------------------
(* Properties of single tool calls (CallSpec) *)

Returned == call.phase = "returned"

\* the tool call just returned was update_existing_memory or supersede_memory
MarkingCall == Returned /\ call.tool \in {"update", "supersede"}

\* the record the call referred to was gone or superseded when the call started
StaleAtCall == call.pid \notin DOMAIN call.pre \/ call.pre[call.pid].is_current = 0

\* C2, idempotent invalidation.  mark_memory_old(id) (the whole of
\* supersede_memory) on a record that an earlier call has superseded leaves
\* every field of every record as it was, superseded_at included, and on an
\* id that is not in the store it changes nothing; neither raises.
C2_IdempotentInvalidation ==
    (Returned /\ call.tool = "supersede" /\ call.idx \in 0..(call.n - 1)
              /\ StaleAtCall)
        => store = call.pre /\ ~call.err

\* C3, update produces history.  After update_existing_memory(i, new_text, cats)
\* on a record P that was current, P is still there with is_current = 0 and a
\* stamp and all its other fields as before, exactly one record is new, it is
\* current and carries new_text and cats for the task's user, and every other
\* record is as it was.
C3_UpdateProducesHistory ==
    (Returned /\ call.tool = "update" /\ ~call.err /\ ~StaleAtCall) =>
        LET P   == call.pid
            new == DOMAIN store \ DOMAIN call.pre
        IN  /\ DOMAIN call.pre \subseteq DOMAIN store
            /\ store[P].is_current = 0
            /\ HasStamp(store[P])
            /\ \A f \in DOMAIN call.pre[P] \ {"is_current"} :
                   store[P][f] = call.pre[P][f]
            /\ Cardinality(new) = 1
            /\ \A id \in new :
                   /\ store[id].is_current = 1
                   /\ ~HasStamp(store[id])
                   /\ store[id].memory_text = call.inp[1].text
                   /\ store[id].categories = Join(call.inp[1].cats)
                   /\ store[id].user_id = DefaultUser
            /\ \A id \in DOMAIN call.pre \ {P} : store[id] = call.pre[id]

\* an update of a current record has returned in a store that holds two
\* further records, one of them of the other user
C3_Witness ==
    /\ Returned /\ call.tool = "update" /\ ~call.err /\ ~StaleAtCall
    /\ Cardinality(DOMAIN call.pre) = 2
    /\ \E id \in DOMAIN call.pre : call.pre[id].user_id # DefaultUser
    /\ call.inp[1].text # call.pre[call.pid].memory_text

C26_UpdateLeavesCurrent ==
    (Returned /\ call.tool = "update" /\ call.idx \in 0..(call.n - 1)
              /\ ~StaleAtCall) =>
        \/ call.pid \in DOMAIN store /\ store[call.pid].is_current = 1
        \/ \E id \in DOMAIN store \ DOMAIN call.pre :
               /\ store[id].is_current = 1
               /\ store[id].memory_text = call.inp[1].text

\* C27, reconciliation stays within its user.  During and after a tool call
\* of a task of user A every record of another user is as it was when the
\* call started, every record the call created has user_id = A, and the only
\* record it changed is the one it referred to, a record of A taken from the
\* task's snapshot (retrieved with include_old=False), now with
\* is_current = 0.
C27_WithinUser ==
    call.phase \in {"running", "returned"} =>
        /\ \A id \in DOMAIN call.pre :
               call.pre[id].user_id # DefaultUser =>
                   id \in DOMAIN store /\ store[id] = call.pre[id]
        /\ \A id \in DOMAIN store \ DOMAIN call.pre :
               store[id].user_id = DefaultUser
        /\ \A id \in DOMAIN store \cap DOMAIN call.pre :
               store[id] # call.pre[id] =>
                   /\ id = call.pid
                   /\ call.pre[id].user_id = DefaultUser
                   /\ id \in SeqRange(jobs[call.job].existing)
                   /\ store[id].is_current = 0

\* an update has returned that superseded a record of user 1 with the very
\* text of the current record of user 2, which is as it was
C27_Witness ==
    /\ Returned /\ call.tool = "update" /\ ~call.err
    /\ call.pid \in DOMAIN call.pre
    /\ call.pre[call.pid].is_current = 1
    /\ store[call.pid].is_current = 0
    /\ \E b \in DOMAIN store :
           /\ store[b].user_id # DefaultUser
           /\ store[b].is_current = 1
           /\ store[b].memory_text = store[call.pid].memory_text

\* C9, out-of-range index.  update_existing_memory(i, ...) and
\* supersede_memory(i) with i outside 0..n-1, n the length of the snapshot,
\* leave the store as it was and raise no error.
C9_OutOfRangeNoOp ==
    (MarkingCall /\ (call.idx < 0 \/ call.idx >= call.n))
        => store = call.pre /\ ~call.err

\* C10, stale reference.  update_existing_memory(i, ...) and supersede_memory(i)
\* that refer to a record which is superseded or no longer in the store when
\* the call starts leave the store as it was: the record keeps every field and
\* no replacement is created.
C10_StaleReferenceNoOp ==
    (MarkingCall /\ call.idx >= 0 /\ call.idx < call.n /\ StaleAtCall)
        => store = call.pre

\* the update call observed has returned after invalidating a current record
\* and creating its replacement
UpdateDone ==
    /\ Returned /\ call.tool = "update" /\ ~call.err /\ ~StaleAtCall
    /\ DOMAIN store \ DOMAIN call.pre # {}

\* the lines among UserInputs that ask about the past ("did I", "Before", "Previous")
AboutThePast ==
    { <<"Where", "did", "I", "live", "Before">>,
      <<"what", "is", "my", "Previous", "city">> }

\* does the query vector q pass the relevance floor for the record?
Matches(q, meta) == ~BelowFloor(Score(Distance(q, meta.embedding)))

\* C11, versioning scenario.  After F1 was added and an UPDATE has replaced it
\* by F2, the retrieval of chat_loop for a line and a query vector matching
\* both returns F2 and not F1 when the line is no question about the past,
\* and returns both when it is one (e.g. it says "before"), F1 with
\* is_current = 0 and rendered with the [OLD/SUPERSEDED] tag, F2 without it.
C11_VersioningScenario ==
    UpdateDone =>
        LET F1 == call.pid
            F2 == CHOOSE id \in DOMAIN store \ DOMAIN call.pre : TRUE
        IN  \A q \in QueryVecs, text \in UserInputs :
                (Matches(q, store[F1]) /\ Matches(q, store[F2])) =>
                    LET out == ChatRetrieve(store, DefaultUser, text, q)
                        at(id) == {n \in 1..Len(out) : out[n].point_id = id}
                    IN  IF text \in AboutThePast
                        THEN /\ Cardinality(at(F1)) = 1 /\ Cardinality(at(F2)) = 1
                             /\ \A n \in at(F1) :
                                    /\ out[n].is_current = 0
                                    /\ StringifyRetrievedPoint(out[n]).status_tag = OldTag
                             /\ \A n \in at(F2) :
                                    /\ out[n].is_current = 1
                                    /\ StringifyRetrievedPoint(out[n]).status_tag = ""
                        ELSE at(F1) = {} /\ Cardinality(at(F2)) = 1

\* F1 = "p" was updated to F2 = "q"; the line with "Before" retrieves both, the
\* plain line only one
C11_Witness ==
    /\ UpdateDone
    /\ call.pre[call.pid].memory_text = <<"p">>
    /\ call.inp[1].text = <<"q">>
    /\ Len(ChatRetrieve(store, DefaultUser, <<"Where", "did", "I", "live", "Before">>, 1)) = 2
    /\ Len(ChatRetrieve(store, DefaultUser, <<"where", "do", "I", "live">>, 1)) = 1

====
